---- MODULE Spec2Model ----
(***************************************************************************)
(* A model of app.py, the Streamlit dashboard script of DataTalksClub-     *)
(* Projects: load_data, filter_dataframe and the module-level load /       *)
(* render flow.                                                            *)
(*                                                                         *)
(* Spec        one run of the script: selection, load_data, title          *)
(*             preprocessing, filter_dataframe, the four chart sections.   *)
(* FilterSpec  filter_dataframe on tables large enough for the numeric and *)
(*             free-text branches (10 or more distinct values), column by  *)
(*             column, followed by a second pass over its own result.      *)
(***************************************************************************)
EXTENDS Integers, Sequences, FiniteSets, TLC

VARIABLES
    pc,                 \* position of the script / of filter_dataframe
    selected_courses,   \* st.multiselect('Select course(s):')
    selected_years,     \* st.multiselect('Select year(s):')
    fs,                 \* what os.path.exists / pd.read_csv found, per path
    dfs,                \* load_data's list of tables
    pair_i,             \* position of load_data's nested loop
    data,               \* the script's `data`
    out,                \* what the script has written to the page, in order
    word_freq,          \* the script's `word_freq`: token -> count
    raised,             \* the uncaught exception that ended the run, or "none"
    df,                 \* filter_dataframe's argument
    to_filter_columns,  \* what st.multiselect("Select columns to filter") gave
    user,               \* the user: the columns chosen, each widget's input
    df_filtered,        \* filter_dataframe's running result
    col_i,              \* position of filter_dataframe's loop
    pass,               \* 1: first call, 2: the call on the first call's result
    branches,           \* the branch taken for each column of this pass
    result1,            \* what the first call returned
    branches1,          \* the branches the first call took
    last                \* the column step just taken

vars == <<pc, selected_courses, selected_years, fs, dfs, pair_i, data, out,
          word_freq, raised, df, to_filter_columns, user, df_filtered, col_i, pass,
          branches, result1, branches1, last>>

scriptVars == <<selected_courses, selected_years, fs, dfs, pair_i, data, out,
                word_freq, raised>>

filterVars == <<df, to_filter_columns, user, df_filtered, col_i, pass,
                branches, result1, branches1, last>>

None == "None"

----------------------------------------------------------------------------
(* Cell values.  A cell is missing (NaN), a number or a string; a string    *)
(* is its sequence of characters.                                           *)

NaN == [k |-> "nan", n |-> 0, s |-> <<>>]

Num(x) == [k |-> "num", n |-> x, s |-> <<>>]

Str(cs) == [k |-> "str", n |-> 0, s |-> cs]

isna(v) == v.k = "nan"

Chars == <<"a", "A", "b", "B">>

\* str.lower on one character
Lower(c) == CASE c = "A" -> "a" [] c = "B" -> "b" [] OTHER -> c

AllColumns == {"project_title", "Deployment Type", "processed_titles", "year"}

----------------------------------------------------------------------------
(* Tables.  cols is df.columns, dtype the dtype of each column, rows the    *)
(* rows in order, each with its index label and its cells.                  *)

Table(cols, dtype, rows) == [cols |-> cols, dtype |-> dtype, rows |-> rows]

\* df[column]: the column as a sequence of values
Series(t, column) == [i \in 1..Len(t.rows) |-> t.rows[i].cells[column]]

\* Series.unique(): the distinct values, NaN included
unique(ser) == {ser[i] : i \in DOMAIN ser}

\* Series.nunique(): the number of distinct non-missing values
nunique(ser) == Cardinality({v \in unique(ser) : ~isna(v)})

is_categorical_dtype(t, column) == t.dtype[column] = "category"

is_numeric_dtype(t, column) == t.dtype[column] = "numeric"

NumbersOf(ser) == {v.n : v \in {w \in unique(ser) : w.k = "num"}}

\* Series.min() / Series.max(): over the non-missing values
SeriesMin(ser) == CHOOSE m \in NumbersOf(ser) : \A x \in NumbersOf(ser) : m <= x

SeriesMax(ser) == CHOOSE m \in NumbersOf(ser) : \A x \in NumbersOf(ser) : m >= x

RECURSIVE MaskedRows(_, _, _)
MaskedRows(rows, mask, i) ==
    IF i > Len(rows) THEN <<>>
    ELSE (IF mask[i] THEN <<rows[i]>> ELSE <<>>)
         \o MaskedRows(rows, mask, i + 1)

\* df[mask]: the rows whose mask is True, in order, index labels kept
Rows(t, mask) == [t EXCEPT !.rows = MaskedRows(t.rows, mask, 1)]

IndexSet(t) == {t.rows[i].index : i \in 1..Len(t.rows)}

----------------------------------------------------------------------------
(* filter_dataframe                                                         *)

\* the distinct-value count below which a column is categorical
CatThreshold == 10

\* `{x for x in df[column]}` raises TypeError on an unhashable value
IsHashable(v) == v.k \in {"nan", "num", "str"}

\* Classify with the numeric test before the categorical one
ClassifyNumericFirst(t, column) ==
    IF is_numeric_dtype(t, column) THEN "numeric"
    ELSE IF is_categorical_dtype(t, column)
            \/ nunique(Series(t, column)) < CatThreshold
    THEN "categorical"
    ELSE "text"

\* the if / elif / else of lines 84-106, on the current rows
Classify(t, column) ==
    IF is_categorical_dtype(t, column)
       \/ nunique(Series(t, column)) < CatThreshold
    THEN "categorical"
    ELSE IF is_numeric_dtype(t, column) THEN "numeric" ELSE "text"

\* right.multiselect(options, default = all options): the options the user
\* has not deselected
multiselect(options, u) == options \ u.excl

\* right.slider(_min, _max, (_min, _max)): the default, or the user's pair
slider(_min, _max, u) == IF u.range = <<>> THEN <<_min, _max>> ELSE u.range

\* isin under which a missing value is in no list
isinNotMissing(v, values) == ~isna(v) /\ v \in values

\* Series.isin(values): NaN is in a list that holds NaN
isin(v, values) == v \in values

\* between that lets a missing value through
betweenOrMissing(v, lo, hi) == isna(v) \/ (lo <= v.n /\ v.n <= hi)

\* Series.between(lo, hi): inclusive on both sides, False for NaN
between(v, lo, hi) == v.k = "num" /\ lo <= v.n /\ v.n <= hi

\* a character match that ignores the case flag
CharMatchExact(c, p, case) == c = p

CharMatch(c, p, case) == IF case THEN c = p ELSE Lower(c) = Lower(p)

\* Series.str.contains(pat, case = case, na = False) for a literal pattern
str_contains(v, pat, case) ==
    /\ v.k = "str"
    /\ \E o \in 0..(Len(v.s) - Len(pat)) :
          \A j \in 1..Len(pat) : CharMatch(v.s[o + j], pat[j], case)

\* which branch the loop body takes for a column; "skip" is the `continue`
BranchOf(orig, t, column) ==
    IF \E v \in unique(Series(orig, column)) : ~IsHashable(v)
    THEN "skip"
    ELSE Classify(t, column)

\* one iteration of the loop of lines 76-116
FilterColumn(orig, t, column, u) ==
    LET b == BranchOf(orig, t, column)
        ser == Series(t, column)
    IN  CASE b = "categorical" ->
               LET user_cat_input == multiselect(unique(ser), u)
                   mask == [i \in DOMAIN ser |-> isin(ser[i], user_cat_input)]
               IN  Rows(t, mask)
          [] b = "numeric" ->
               LET user_num_input == slider(SeriesMin(ser), SeriesMax(ser), u)
                   mask == [i \in DOMAIN ser |->
                              between(ser[i], user_num_input[1],
                                      user_num_input[2])]
               IN  Rows(t, mask)
          [] b = "text" ->
               IF u.pat # <<>>
               THEN LET mask == [i \in DOMAIN ser |->
                                   str_contains(ser[i], u.pat, u.case)]
                    IN  Rows(t, mask)
               ELSE t
          [] OTHER -> t

\* the loop run over every column of the table, selected or not
AllTableColumns(t, u) == t.cols

\* st.multiselect("Select columns to filter", df.columns): the columns of
\* the table the user chose, in the order chosen
ToFilterColumns(t, u) ==
    LET InTable(c) == \E i \in 1..Len(t.cols) : t.cols[i] = c
    IN  SelectSeq(u.columns, InTable)

RECURSIVE FilterFrom(_, _, _, _, _)
FilterFrom(orig, t, cols, u, i) ==
    IF i > Len(cols) THEN t
    ELSE FilterFrom(orig,
                    FilterColumn(orig, t, cols[i], u.input[cols[i]]),
                    cols, u, i + 1)

\* filter_dataframe(df) with the user's column selection and inputs
filter_dataframe(t, u) == FilterFrom(t, t, ToFilterColumns(t, u), u, 1)

RECURSIVE BranchesFrom(_, _, _, _, _)
BranchesFrom(orig, t, cols, u, i) ==
    IF i > Len(cols) THEN <<>>
    ELSE <<BranchOf(orig, t, cols[i])>>
         \o BranchesFrom(orig,
                         FilterColumn(orig, t, cols[i], u.input[cols[i]]),
                         cols, u, i + 1)

\* the branches filter_dataframe(df) takes, column by column
filter_branches(t, u) == BranchesFrom(t, t, ToFilterColumns(t, u), u, 1)

----------------------------------------------------------------------------
(* The tables and user inputs filter_dataframe is run on.  A table has a    *)
(* text column and a numeric column; each column cycles through d distinct  *)
(* values and may have one missing cell.                                    *)

\* the number of rows of a table
NRows == 12

\* the j-th title, j in 0..15: two characters
Title(j) == <<Chars[(j \div 4) + 1], Chars[(j % 4) + 1]>>

DistinctChoices == {2, 9, 10, NRows}

\* the row whose cell is missing; 0: none
NanRows == {0, 3}

FilterCell(column, d, nanrow, i) ==
    IF i = nanrow THEN NaN
    ELSE IF column = "year" THEN Num((i - 1) % d)
    ELSE Str(Title((NRows - i) % d))

FilterDtype ==
    [c \in AllColumns |-> IF c = "year" THEN "numeric" ELSE "object"]

FilterTable(dt, nt, dy, ny) ==
    Table(<<"project_title", "year">>, FilterDtype,
          [i \in 1..NRows |->
              [index |-> i - 1,
               cells |-> [c \in AllColumns |->
                            CASE c = "project_title" ->
                                   FilterCell(c, dt, nt, i)
                              [] c = "year" -> FilterCell(c, dy, ny, i)
                              [] OTHER -> NaN]]])

FilterTables ==
    {FilterTable(dt, nt, dy, ny) :
        dt \in DistinctChoices, nt \in NanRows,
        dy \in DistinctChoices, ny \in NanRows}

\* the orders in which the user may select the two columns
ColumnOrders ==
    {<<>>, <<"project_title">>, <<"year">>, <<"project_title", "year">>,
     <<"year", "project_title">>}

\* a widget left as it is shown
DefaultInput == [excl |-> {}, range |-> <<>>, pat |-> <<>>, case |-> FALSE]

\* the rows whose value the user may deselect in a multiselect
ExclRows == {1, 3}

Ranges == {<<>>, <<1, 4>>, <<0, 9>>}

Patterns == {<<>>, <<"a">>, <<"A", "b">>}

\* what the user may enter for a column: the values deselected if the
\* column is shown a multiselect, and the range (numeric dtype) or the
\* pattern and case flag (any other dtype) if it is not
InputsFor(t, column) ==
    LET Excl == {{}} \cup {{t.rows[r].cells[column]} : r \in ExclRows}
    IN  IF is_numeric_dtype(t, column)
        THEN {[excl |-> e, range |-> r, pat |-> <<>>, case |-> FALSE] :
                 e \in Excl, r \in Ranges}
        ELSE {[excl |-> e, range |-> <<>>, pat |-> p, case |-> c] :
                 e \in Excl, p \in Patterns, c \in BOOLEAN}

Selected(cols) == {cols[i] : i \in 1..Len(cols)}

\* the user: the columns chosen and what is entered for each of them
UserInputs(t) ==
    LET For(cols, c) == IF c \in Selected(cols) THEN InputsFor(t, c)
                        ELSE {DefaultInput}
        Inputs(cols) ==
            {[c \in AllColumns |->
                CASE c = "project_title" -> a
                  [] c = "year" -> b
                  [] OTHER -> DefaultInput] :
                a \in For(cols, "project_title"), b \in For(cols, "year")}
    IN  UNION {{[columns |-> cols, input |-> inp] : inp \in Inputs(cols)} :
                  cols \in ColumnOrders}

NoStep ==
    [column |-> None, branch |-> None, before |-> <<>>, after |-> <<>>,
     min |-> 0, max |-> 0, step100 |-> 0]

EmptyTable == Table(<<>>, [c \in AllColumns |-> "object"], <<>>)

----------------------------------------------------------------------------
(* filter_dataframe, one column at a time                                   *)

FilterInit ==
    /\ pc = "filter_loop"
    /\ df \in FilterTables
    /\ user \in UserInputs(df)
    /\ to_filter_columns = ToFilterColumns(df, user)
    /\ df_filtered = df
    /\ col_i = 1
    /\ pass = 1
    /\ branches = <<>>
    /\ result1 = EmptyTable
    /\ branches1 = <<>>
    /\ last = NoStep
    /\ selected_courses = <<>>
    /\ selected_years = <<>>
    /\ fs = <<>>
    /\ dfs = <<>>
    /\ pair_i = 1
    /\ data = EmptyTable
    /\ out = <<>>
    /\ word_freq = <<>>
    /\ raised = "none"

\* lines 76-116: the loop body for the next selected column
FilterStep ==
    /\ pc = "filter_loop"
    /\ col_i <= Len(to_filter_columns)
    /\ LET column == to_filter_columns[col_i]
           b == BranchOf(df, df_filtered, column)
           ser == Series(df_filtered, column)
           after == FilterColumn(df, df_filtered, column,
                                 user.input[column])
           lo == IF b = "numeric" THEN SeriesMin(ser) ELSE 0
           hi == IF b = "numeric" THEN SeriesMax(ser) ELSE 0
       IN  /\ df_filtered' = after
           /\ branches' = Append(branches, b)
           /\ last' = [column |-> column, branch |-> b,
                       before |-> df_filtered.rows, after |-> after.rows,
                       min |-> lo, max |-> hi, step100 |-> hi - lo]
    /\ col_i' = col_i + 1
    /\ UNCHANGED <<pc, df, to_filter_columns, user, pass, result1, branches1>>
    /\ UNCHANGED scriptVars

\* line 118: return df_filtered
FilterReturn ==
    /\ pc = "filter_loop"
    /\ col_i > Len(to_filter_columns)
    /\ pc' = "returned"
    /\ result1' = IF pass = 1 THEN df_filtered ELSE result1
    /\ branches1' = IF pass = 1 THEN branches ELSE branches1
    /\ UNCHANGED <<df, to_filter_columns, user, df_filtered, col_i, pass,
                   branches, last>>
    /\ UNCHANGED scriptVars

\* filter_dataframe called again on what it returned, with the same
\* selection and the same user inputs
Refilter ==
    /\ pc = "returned"
    /\ pass = 1
    /\ pc' = "filter_loop"
    /\ pass' = 2
    /\ df' = df_filtered
    /\ col_i' = 1
    /\ branches' = <<>>
    /\ last' = NoStep
    /\ to_filter_columns' = ToFilterColumns(df_filtered, user)
    /\ UNCHANGED <<user, df_filtered, result1, branches1>>
    /\ UNCHANGED scriptVars

FilterNext == FilterStep \/ FilterReturn \/ Refilter

FilterSpec == FilterInit /\ [][FilterNext]_vars

----------------------------------------------------------------------------
(* The script: the files under ./Data, load_data, and the module-level      *)
(* flow of lines 122-228.                                                   *)

course_options == <<"dezoomcamp", "mlopszoomcamp", "mlzoomcamp">>

year_options == <<"2021", "2022", "2023">>

\* the most rows a data.csv holds
MaxRows == 2

\* the most data.csv files that exist under ./Data
MaxFiles == 2

\* f"./Data/{course}/{year}/data.csv"
PathOf(course, year) == <<".", "Data", course, year, "data.csv">>

IndexIn(q, x) == CHOOSE i \in 1..Len(q) : q[i] = x

\* what a path holds: nothing, a file pd.read_csv cannot parse, or a CSV
\* with a header (with both expected columns or lacking one) and n rows
Absent == [state |-> "absent", header |-> "none", n |-> 0]

Malformed == [state |-> "malformed", header |-> "none", n |-> 0]

Csv(header, n) == [state |-> "ok", header |-> header, n |-> n]

FileStates ==
    {Absent, Malformed}
    \cup {Csv("both", n) : n \in 0..MaxRows}
    \cup {Csv("no_project_title", 1), Csv("no_deployment_type", 1)}

HeaderColumns(header) ==
    CASE header = "both" -> <<"project_title", "Deployment Type">>
      [] header = "no_project_title" -> <<"Deployment Type">>
      [] header = "no_deployment_type" -> <<"project_title">>
      [] OTHER -> <<>>

\* the cells of line r of the file of a course and year: the title names
\* the course, the year and the line
CsvCells(course, year, f, r) ==
    [c \in AllColumns |->
        IF c \notin Selected(HeaderColumns(f.header)) THEN NaN
        ELSE IF c = "project_title"
        THEN Str(<<Chars[IndexIn(course_options, course)],
                   Chars[IndexIn(year_options, year) + 1], Chars[r]>>)
        ELSE Str(<<Chars[(r % 2) + 1]>>)]

ObjectDtype == [c \in AllColumns |-> "object"]

\* pd.read_csv(path) of a file that parses
read_csv(course, year, f) ==
    Table(HeaderColumns(f.header), ObjectDtype,
          [r \in 1..f.n |->
              [index |-> r - 1, cells |-> CsvCells(course, year, f, r)]])

RECURSIVE ConcatRows(_, _)
ConcatRows(tables, i) ==
    IF i > Len(tables) THEN <<>>
    ELSE tables[i].rows \o ConcatRows(tables, i + 1)

RECURSIVE UnionColumns(_, _, _)
UnionColumns(tables, i, acc) ==
    IF i > Len(tables) THEN acc
    ELSE LET New(c) == c \notin Selected(acc)
         IN  UnionColumns(tables, i + 1, acc \o SelectSeq(tables[i].cols, New))

\* concat that returns the last table read instead of all of them
concatLastOnly(tables) ==
    LET rows == tables[Len(tables)].rows
    IN  Table(UnionColumns(tables, 1, <<>>), ObjectDtype,
              [i \in 1..Len(rows) |-> [rows[i] EXCEPT !.index = i - 1]])

\* pd.concat(dfs, ignore_index=True): the rows of the tables one after the
\* other, relabelled 0..n-1, over the union of the columns
concat(tables) ==
    LET rows == ConcatRows(tables, 1)
    IN  Table(UnionColumns(tables, 1, <<>>), ObjectDtype,
              [i \in 1..Len(rows) |-> [rows[i] EXCEPT !.index = i - 1]])

\* line 36 without its `if dfs else None`: pd.concat([]) raises ValueError
load_return_unguarded(tables) ==
    IF tables # <<>> THEN [raised |-> "none", value |-> <<concat(tables)>>]
    ELSE [raised |-> "ValueError", value |-> <<>>]

\* line 36: the table, or None, written <<t>> and <<>>
load_return(tables) ==
    [raised |-> "none",
     value |-> IF tables # <<>> THEN <<concat(tables)>> ELSE <<>>]

\* the k-th (course, year) of the nested loops of lines 28-29
PairAt(courses, years, k) ==
    <<courses[((k - 1) \div Len(years)) + 1],
      years[((k - 1) % Len(years)) + 1]>>

\* the sub-lists of a list of options, in the options' order
RECURSIVE SubLists(_)
SubLists(q) ==
    IF q = <<>> THEN {<<>>}
    ELSE LET rest == SubLists(Tail(q))
         IN  rest \cup {<<Head(q)>> \o x : x \in rest}

\* Series.astype(str): a missing value becomes the string "nan"
astype_str(v) == IF isna(v) THEN Str(<<"n", "a", "n">>) ELSE v

Punctuation == {"!", ",", "."}

\* EDAAnalysis.preprocess_text: lowercase, punctuation stripped
preprocess_text(v) ==
    LET Kept(c) == c \notin Punctuation
        cs == SelectSeq(v.s, Kept)
    IN  Str([i \in 1..Len(cs) |-> Lower(cs[i])])

\* EDAAnalysis.calculate_word_frequency: token -> number of occurrences;
\* empty for an empty column
calculate_word_frequency(ser) ==
    [w \in {ser[i].s : i \in DOMAIN ser} |->
        Cardinality({i \in DOMAIN ser : ser[i].s = w})]

\* Series.plot raises on a series with nothing to plot
PlotRaises(n) == n = 0

\* what the user does with filter_dataframe's widgets in the script: any
\* columns in any order, and for each at most the first row's value
\* deselected
ScriptUserInputs(t) ==
    LET Orders == {q \in UNION {[1..n -> Selected(t.cols)] : n \in 0..2} :
                      \A i, j \in 1..Len(q) : i # j => q[i] # q[j]}
        Excl(c) == IF t.rows = <<>> THEN {{}}
                   ELSE {{}, {t.rows[1].cells[c]}}
    IN  {[columns |-> q,
          input |-> [c \in AllColumns |->
                       [DefaultInput EXCEPT
                           !.excl = IF c = "project_title" THEN a
                                    ELSE IF c = "Deployment Type" THEN b
                                    ELSE {}]]] :
            q \in Orders, a \in Excl("project_title"),
            b \in Excl("Deployment Type")}

HasColumn(t, c) == c \in Selected(t.cols)

Init ==
    /\ pc = "start"
    /\ selected_courses \in SubLists(course_options)
    /\ selected_years \in SubLists(year_options)
    /\ fs = <<>>
    /\ dfs = <<>>
    /\ pair_i = 1
    /\ data = <<>>
    /\ out = <<>>
    /\ word_freq = <<>>
    /\ raised = "none"
    /\ df = EmptyTable
    /\ to_filter_columns = <<>>
    /\ user = [columns |-> <<>>, input |-> [c \in AllColumns |-> DefaultInput]]
    /\ df_filtered = EmptyTable
    /\ col_i = 1
    /\ pass = 1
    /\ branches = <<>>
    /\ result1 = EmptyTable
    /\ branches1 = <<>>
    /\ last = NoStep

NPairs == Len(selected_courses) * Len(selected_years)

Existing == {p \in DOMAIN fs : fs[p].state # "absent"}

\* lines 122-123 and 216-217: the selection is checked, load_data is called
Start ==
    /\ pc = "start"
    /\ IF selected_courses # <<>> /\ selected_years # <<>>
       THEN /\ pc' = "load_loop"
            /\ out' = out
       ELSE /\ pc' = "sidebar"
            /\ out' = Append(out, "Please select at least one course and one year to load data.")
    /\ UNCHANGED <<selected_courses, selected_years, fs, dfs, pair_i, data,
                   word_freq, raised>>
    /\ UNCHANGED filterVars

\* lines 28-35: one (course, year) of the nested loops
LoadPair ==
    /\ pc = "load_loop"
    /\ pair_i <= NPairs
    /\ LET pair == PairAt(selected_courses, selected_years, pair_i)
           path == PathOf(pair[1], pair[2])
       IN  \E f \in FileStates :
              /\ f.state # "absent" => Cardinality(Existing) < MaxFiles
              /\ fs' = (path :> f) @@ fs
              /\ CASE f.state = "absent" ->
                        /\ dfs' = dfs
                        /\ pc' = pc
                        /\ raised' = raised
                   [] f.state = "malformed" ->
                        /\ dfs' = dfs
                        /\ pc' = "aborted"
                        /\ raised' = "ParserError"
                   [] OTHER ->
                        /\ dfs' = Append(dfs, read_csv(pair[1], pair[2], f))
                        /\ pc' = pc
                        /\ raised' = raised
    /\ pair_i' = pair_i + 1
    /\ UNCHANGED <<selected_courses, selected_years, data, out, word_freq>>
    /\ UNCHANGED filterVars

\* line 36: load_data returns
LoadReturn ==
    /\ pc = "load_loop"
    /\ pair_i > NPairs
    /\ LET r == load_return(dfs)
       IN  /\ data' = r.value
           /\ raised' = r.raised
           /\ pc' = IF r.raised = "none" THEN "check_data" ELSE "aborted"
    /\ UNCHANGED <<selected_courses, selected_years, fs, dfs, pair_i, out,
                   word_freq>>
    /\ UNCHANGED filterVars

\* lines 124 and 214-215
CheckData ==
    /\ pc = "check_data"
    /\ IF data # <<>>
       THEN /\ pc' = "preprocess"
            /\ out' = out
       ELSE /\ pc' = "sidebar"
            /\ out' = Append(out, "No data loaded.")
    /\ UNCHANGED <<selected_courses, selected_years, fs, dfs, pair_i, data,
                   word_freq, raised>>
    /\ UNCHANGED filterVars

\* lines 127-131: the titles as strings, and the processed_titles column
Preprocess ==
    /\ pc = "preprocess"
    /\ IF HasColumn(data[1], "project_title")
       THEN /\ data' =
                <<[data[1] EXCEPT
                    !.cols = @ \o <<"processed_titles">>,
                    !.rows = [i \in 1..Len(@) |->
                        [@[i] EXCEPT !.cells =
                            [@ EXCEPT
                               !["project_title"] = astype_str(@),
                               !["processed_titles"] =
                                   preprocess_text(astype_str(
                                       data[1].rows[i].cells["project_title"]))]]]]>>
            /\ pc' = "filter"
            /\ raised' = raised
       ELSE /\ data' = data
            /\ pc' = "aborted"
            /\ raised' = "KeyError"
    /\ UNCHANGED <<selected_courses, selected_years, fs, dfs, pair_i, out,
                   word_freq>>
    /\ UNCHANGED filterVars

\* lines 136-153: filter_dataframe, the count, the table, the download
FilterData ==
    /\ pc = "filter"
    /\ \E u \in ScriptUserInputs(data[1]) :
          LET filtered == filter_dataframe(data[1], u)
          IN  /\ data' = <<filtered>>
              /\ out' = out \o <<"Number of projects loaded", "dataframe">>
                            \o (IF filtered.rows # <<>>
                                THEN <<"Download CSV">> ELSE <<>>)
    /\ pc' = "word_freq"
    /\ UNCHANGED <<selected_courses, selected_years, fs, dfs, pair_i,
                   word_freq, raised>>
    /\ UNCHANGED filterVars

\* line 155
WordFreq ==
    /\ pc = "word_freq"
    /\ word_freq' =
           calculate_word_frequency(Series(data[1], "processed_titles"))
    /\ pc' = "title_chart"
    /\ UNCHANGED <<selected_courses, selected_years, fs, dfs, pair_i, data,
                   out, raised>>
    /\ UNCHANGED filterVars

\* lines 158-171
TitleChart ==
    /\ pc = "title_chart"
    /\ out' = out \o <<"header: Top 10 Most Frequent Project Titles",
                       IF PlotRaises(Len(data[1].rows))
                       THEN "notice: titles" ELSE "pyplot: titles">>
    /\ pc' = "word_chart"
    /\ UNCHANGED <<selected_courses, selected_years, fs, dfs, pair_i, data,
                   word_freq, raised>>
    /\ UNCHANGED filterVars

\* lines 174-185
WordChart ==
    /\ pc = "word_chart"
    /\ out' = out \o <<"header: Top 10 Most Frequent Words",
                       IF PlotRaises(Cardinality(DOMAIN word_freq))
                       THEN "notice: words" ELSE "pyplot: words">>
    /\ pc' = "word_cloud"
    /\ UNCHANGED <<selected_courses, selected_years, fs, dfs, pair_i, data,
                   word_freq, raised>>
    /\ UNCHANGED filterVars

\* lines 188-193
WordCloud ==
    /\ pc = "word_cloud"
    /\ out' = out \o <<"header: Word Cloud",
                       IF PlotRaises(Len(data[1].rows))
                       THEN "notice: word cloud" ELSE "image: word cloud">>
    /\ pc' = "deployment_chart"
    /\ UNCHANGED <<selected_courses, selected_years, fs, dfs, pair_i, data,
                   word_freq, raised>>
    /\ UNCHANGED filterVars

\* lines 196-210
DeploymentChart ==
    /\ pc = "deployment_chart"
    /\ out' = out \o <<"header: Deployment Type Distribution",
                       IF \/ ~HasColumn(data[1], "Deployment Type")
                          \/ PlotRaises(Cardinality(
                                 {v \in unique(Series(data[1], "Deployment Type")) :
                                     ~isna(v)}))
                       THEN "notice: deployment types"
                       ELSE "pyplot: deployment types">>
    /\ pc' = "sidebar"
    /\ UNCHANGED <<selected_courses, selected_years, fs, dfs, pair_i, data,
                   word_freq, raised>>
    /\ UNCHANGED filterVars

\* lines 220-228
Sidebar ==
    /\ pc = "sidebar"
    /\ out' = Append(out, "sidebar")
    /\ pc' = "done"
    /\ UNCHANGED <<selected_courses, selected_years, fs, dfs, pair_i, data,
                   word_freq, raised>>
    /\ UNCHANGED filterVars

Next ==
    \/ Start
    \/ LoadPair
    \/ LoadReturn
    \/ CheckData
    \/ Preprocess
    \/ FilterData
    \/ WordFreq
    \/ TitleChart
    \/ WordChart
    \/ WordCloud
    \/ DeploymentChart
    \/ Sidebar

Spec == Init /\ [][Next]_vars

----------------------------------------------------------------------------
(* Properties of load_data and of the script, checked under Spec            *)

\* the (course, year) positions of the selection
SelectedPairs ==
    {<<i, j>> : i \in 1..Len(selected_courses), j \in 1..Len(selected_years)}

FileAt(p) == fs[PathOf(selected_courses[p[1]], selected_years[p[2]])]

\* the pairs whose file exists and parses
LoadedPairs == {p \in SelectedPairs : FileAt(p).state = "ok"}

\* the pairs that come before p with the courses in the outer loop
PairsBefore(p) ==
    {q \in LoadedPairs : q[1] < p[1] \/ (q[1] = p[1] /\ q[2] < p[2])}

RECURSIVE RowCount(_)
RowCount(pairs) ==
    IF pairs = {} THEN 0
    ELSE LET p == CHOOSE x \in pairs : TRUE
         IN  FileAt(p).n + RowCount(pairs \ {p})

SectionHeaders ==
    {"header: Top 10 Most Frequent Project Titles",
     "header: Top 10 Most Frequent Words",
     "header: Word Cloud",
     "header: Deployment Type Distribution"}

Written == {out[i] : i \in 1..Len(out)}

\* C1: when load_data returns and at least one path of the selection
\* exists, it returns one table whose row count is the sum of the row
\* counts of the existing files, each file's rows a contiguous block at the
\* place the load order (courses outside, years inside) gives it.
C1_LoadConcatenatesExistingFiles ==
    (pc = "check_data" /\ LoadedPairs # {}) =>
        /\ data # <<>>
        /\ Len(data[1].rows) = RowCount(LoadedPairs)
        /\ \A p \in LoadedPairs :
              \A r \in 1..FileAt(p).n :
                 LET row == data[1].rows[RowCount(PairsBefore(p)) + r]
                 IN  /\ row.cells = CsvCells(selected_courses[p[1]],
                                             selected_years[p[2]], FileAt(p), r)
                     /\ row.index = RowCount(PairsBefore(p)) + r - 1

\* two files with rows, of different courses and years, with a missing path
\* between them in the load order
C1_Witness ==
    /\ pc = "check_data"
    /\ \E p, q \in LoadedPairs :
          /\ p[1] < q[1] /\ p[2] > q[2]
          /\ FileAt(p).n = MaxRows /\ FileAt(q).n = 1
          /\ \E m \in SelectedPairs \ LoadedPairs : p[1] = m[1] /\ p[2] < m[2]

NoPathExists ==
    /\ selected_courses # <<>>
    /\ selected_years # <<>>
    /\ \A p \in DOMAIN fs : fs[p].state = "absent"

\* C2: with no existing path load_data visits every pair, returns None and
\* does not raise, and the script writes "No data loaded." and neither the
\* "Please select" message nor any section.
C2_NoFilesGivesNoData ==
    NoPathExists =>
        /\ raised = "none"
        /\ pc \in {"start", "load_loop", "check_data", "sidebar", "done"}
        /\ pc \notin {"start", "load_loop"} =>
              /\ Cardinality(DOMAIN fs) = NPairs
              /\ data = <<>>
        /\ pc \in {"sidebar", "done"} =>
              /\ out[1] = "No data loaded."
              /\ Written \subseteq {"No data loaded.", "sidebar"}

\* all nine pairs selected, none of them found, the run finished
C2_Witness ==
    /\ NoPathExists
    /\ pc = "done"
    /\ NPairs = 9
    /\ Cardinality(DOMAIN fs) = 9

\* C3, as claimed: a CSV that cannot be parsed is fatal for that file only;
\* the load goes on and an existing file with rows is still loaded.
C3_MalformedFileSkipped ==
    (/\ \E p \in DOMAIN fs : fs[p].state = "malformed"
     /\ \E p \in DOMAIN fs : fs[p].state = "ok" /\ fs[p].n >= 1)
        => /\ pc # "aborted"
           /\ raised = "none"

\* C8, as claimed: after a successful load nothing aborts the render pass,
\* and every section of the dashboard is rendered.
C8_RenderPassCompletes ==
    data # <<>> =>
        /\ pc # "aborted"
        /\ pc = "done" => SectionHeaders \subseteq Written

----------------------------------------------------------------------------
(* Properties of filter_dataframe, checked under FilterSpec                 *)

Reverse(q) == [i \in 1..Len(q) |-> q[Len(q) + 1 - i]]

FirstReturned == pc = "returned" /\ pass = 1

SecondReturned == pc = "returned" /\ pass = 2

\* the user with the selected columns in the opposite order
Swapped == [user EXCEPT !.columns = Reverse(user.columns)]

\* the branch filter_dataframe takes for its i-th column when the columns
\* are selected in the opposite order
SwappedBranch(i) ==
    filter_branches(df, Swapped)[Len(to_filter_columns) + 1 - i]

\* the user has entered something only in the widgets the first call showed:
\* every widget of another kind is as it is shown
OnlyShownWidgetsUsed ==
    \A i \in 1..Len(branches1) :
        LET u == user.input[user.columns[i]]
        IN  /\ branches1[i] # "categorical" => u.excl = {}
            /\ branches1[i] # "numeric" => u.range = <<>>
            /\ branches1[i] # "text" => u.pat = <<>> /\ ~u.case

\* C4: filtering the result of filter_dataframe again, with the same
\* selected columns and the same user inputs (the inclusion set, range or
\* pattern the user entered for each column), returns the same rows, also
\* when a column takes another branch on the second pass.
C4_Idempotent ==
    (SecondReturned /\ OnlyShownWidgetsUsed)
        => df_filtered.rows = result1.rows

\* a second pass in which a column that was numeric or free text is now
\* categorical, over a result that still has rows and has lost some
C4_Witness ==
    /\ SecondReturned
    /\ OnlyShownWidgetsUsed
    /\ \E i \in 1..Len(branches) :
          branches1[i] \in {"numeric", "text"} /\ branches[i] = "categorical"
    /\ \E i \in 1..Len(result1.rows), c \in Selected(user.columns) :
          isna(result1.rows[i].cells[c])
    /\ Len(result1.rows) \in 1..(NRows - 1)

\* the inputs of a column are the same in both orders: a column that takes
\* another branch in the opposite order has every widget as it is shown
SameInputsBothOrders ==
    \A i \in 1..Len(to_filter_columns) :
        branches[i] # SwappedBranch(i)
            => user.input[to_filter_columns[i]] = DefaultInput

\* C5, as claimed: with two selected columns and the same user inputs for
\* each, the order [A, B] and the order [B, A] keep the same rows.
C5_OrderIndependent ==
    (FirstReturned /\ Len(to_filter_columns) = 2 /\ SameInputsBothOrders)
        => IndexSet(df_filtered) = IndexSet(filter_dataframe(df, Swapped))

\* C6: in the numeric branch, the slider left at its default (lo = min,
\* hi = max of the current non-missing values) keeps exactly the rows whose
\* value in the column is not missing.
C6_FullRangeKeepsNonMissing ==
    (last.branch = "numeric" /\ user.input[last.column].range = <<>>)
        => LET NotMissing(r) == ~isna(r.cells[last.column])
           IN  last.after = SelectSeq(last.before, NotMissing)

\* the default range applied to a numeric column that has a missing cell
C6_Witness ==
    /\ last.branch = "numeric"
    /\ user.input[last.column].range = <<>>
    /\ \E i \in 1..Len(last.before) : isna(last.before[i].cells[last.column])
    /\ Len(last.after) = Len(last.before) - 1

\* C7: whether a row survives depends only on its values in the selected
\* columns, and with no column selected every row survives.
C7_UnselectedNeverFiltered ==
    FirstReturned =>
        /\ \A i, j \in 1..Len(df.rows) :
              (\A c \in Selected(user.columns) :
                  df.rows[i].cells[c] = df.rows[j].cells[c])
              => (df.rows[i].index \in IndexSet(df_filtered)
                  <=> df.rows[j].index \in IndexSet(df_filtered))
        /\ user.columns = <<>> => df_filtered.rows = df.rows

\* one column selected and filtered, the other one, not selected, with a
\* missing cell and values that differ from row to row
C7_Witness ==
    /\ FirstReturned
    /\ user.columns = <<"project_title">>
    /\ Len(df_filtered.rows) \in 1..(NRows - 1)
    /\ \E i \in 1..NRows : isna(df.rows[i].cells["year"])
    /\ \E i, j \in 1..NRows :
          /\ df.rows[i].cells["project_title"] = df.rows[j].cells["project_title"]
          /\ df.rows[i].cells["year"] # df.rows[j].cells["year"]

\* a string with every character lowered, unless the match is case sensitive
Fold(cs, case) == IF case THEN cs ELSE [i \in 1..Len(cs) |-> Lower(cs[i])]

\* the pattern occurs in the string as a contiguous run of characters
Occurs(cs, p) ==
    \E i \in 1..(Len(cs) - Len(p) + 1) : SubSeq(cs, i, i + Len(p) - 1) = p

\* C9: in the free-text branch an empty pattern keeps every row, missing
\* values included; a non-empty pattern keeps exactly the rows whose value
\* is not missing and matches under the chosen case sensitivity.
C9_TextPattern ==
    last.branch = "text" =>
        LET u == user.input[last.column]
            Matches(r) ==
                /\ ~isna(r.cells[last.column])
                /\ Occurs(Fold(r.cells[last.column].s, u.case),
                          Fold(u.pat, u.case))
        IN  IF u.pat = <<>> THEN last.after = last.before
            ELSE last.after = SelectSeq(last.before, Matches)

\* a case-insensitive pattern applied to a text column with a missing cell,
\* keeping a row that a case-sensitive match would drop
C9_Witness ==
    /\ last.branch = "text"
    /\ user.input[last.column].pat # <<>>
    /\ ~user.input[last.column].case
    /\ \E i \in 1..Len(last.before) : isna(last.before[i].cells[last.column])
    /\ \E i \in 1..Len(last.after) :
          ~Occurs(last.after[i].cells[last.column].s,
                  user.input[last.column].pat)

\* C10: whenever the numeric branch is taken the column has at least 10
\* distinct non-missing values among the current rows, so min < max and
\* step = (max - min) / 100 is positive.
C10_NumericRangeNotCollapsed ==
    last.branch = "numeric" =>
        /\ Cardinality({last.before[i].cells[last.column] :
                           i \in 1..Len(last.before)} \ {NaN}) >= 10
        /\ last.min < last.max
        /\ last.step100 > 0

\* the numeric branch taken with exactly 10 distinct values, after an
\* earlier column removed rows
C10_Witness ==
    /\ last.branch = "numeric"
    /\ Len(last.before) < NRows
    /\ Cardinality({last.before[i].cells[last.column] :
                       i \in 1..Len(last.before)} \ {NaN}) = 10

====
